---- MODULE Spec2Model ----
(***************************************************************************)
(* Model of the concurrent-write reconciliation of cctv_label:             *)
(*   - the server merge-and-commit loop (saveData / loadData / mergeData   *)
(*     of the save handler, with saveToGCS / loadFromGCS of gcs-storage),  *)
(*   - the client save coordinator (saveQueue / processSaveQueue /         *)
(*     saveToGCS of src/utils/saveData.ts).                                *)
(* Server processes share one generation-versioned document per dataset.   *)
(***************************************************************************)
EXTENDS Integers, Sequences, FiniteSets, TLC

\* ------------------------------------------------------------------------
\* Bounds of the model
\* ------------------------------------------------------------------------
\* number of saveData calls made by all server processes together
MaxCalls == 2
\* the same, in the specification of the exhausted retries
RetryCalls == 4
\* saveData calls of the writers whose attempts end in exceptions and conflicts
ProgressCalls == 4
\* the same, in the specification of the three datasets
DatasetCalls == 2
\* number of saveToGCS calls made by the callers of the client coordinator
MaxSaves == 3
\* the same, in the specification of the eventual delivery
DeliverySaves == 3
\* number of requests the save handler receives, in its specification
HandlerCalls == 2
\* the same, in the specification of its responses
ResponseCalls == 2
\* number of saveData calls in the specification of termination
TerminationCalls == 2
\* number of saveData calls in the specification of record numbering
NumberingCalls == 2
\* number of requests to the handler of src/api/save-analytics.js
CacheCalls == 3
\* number of bare-array requests in the specification of the size heuristic
HeuristicCalls == 2
\* greatest length of the arrays given to mergeData on its own
MergeLen == 3
\* total number of store requests that fail for a reason other than the
\* generation precondition (transport, authentication, uninitialised bucket)
MaxFaults == 1

\* ------------------------------------------------------------------------
\* Program constants
\* ------------------------------------------------------------------------
\* default value of saveData's maxRetries parameter
maxRetries == 3
\* the client flushes at once when the queue holds this many images
MAX_QUEUE_SIZE == 10
\* expectedGeneration = null (no generation precondition)
NullGen == -1
\* a bare array shorter than this is taken for a partial update
HeuristicSize == 100

Procs == {"p1", "p2"}
Datasets == {"existing", "ptz", "new_guntur"}

\* ------------------------------------------------------------------------
\* Records and documents
\* ------------------------------------------------------------------------
\* A record: its key (filename), one payload field and the positional S.No
Rec(k, val, s) == [filename |-> k, v |-> val, SNo |-> s]
\* a null element of a JSON array
NullRec == [filename |-> "<null>", v |-> 0, SNo |-> 0]
IsNull(r) == r = NullRec

\* records a request may carry
InRecs == {Rec("a", 1, 1), Rec("b", 2, 1), NullRec}

\* the record arrays of the requests: empty, or one record
Batches == {<<>>} \cup {<<r>> : r \in InRecs}
\* the requests of the writers that contend for one document
RealBatches == {<<r>> : r \in InRecs \ {NullRec}}

Filenames(s) == {s[i].filename : i \in DOMAIN s}

\* ------------------------------------------------------------------------
\* mergeData (pure)
\* ------------------------------------------------------------------------
\* newDataMap.get(k): new Map(pairs) keeps the value of the last pair of a key
MapGet(newData, k) ==
  newData[CHOOSE i \in DOMAIN newData :
            /\ newData[i].filename = k
            /\ \A j \in DOMAIN newData : newData[j].filename = k => j <= i]

\* variant: an item found in the map is replaced by the item of the new data
\* that has its index (the position in the new data, not the key)
MergeWalkByIndex(existingData, newData) ==
  [i \in DOMAIN existingData |->
     IF /\ existingData[i].filename \in Filenames(newData)
        /\ \A j \in 1..(i - 1) : existingData[j].filename # existingData[i].filename
     THEN IF i \in DOMAIN newData THEN newData[i]
          ELSE MapGet(newData, existingData[i].filename)
     ELSE existingData[i]]

\* existingData.map(...): the first item of a key found in the map is replaced
\* and the key deleted from the map; every other item is kept
MergeWalk(existingData, newData) ==
  [i \in DOMAIN existingData |->
     IF /\ existingData[i].filename \in Filenames(newData)
        /\ \A j \in 1..(i - 1) : existingData[j].filename # existingData[i].filename
     THEN MapGet(newData, existingData[i].filename)
     ELSE existingData[i]]

\* variant: no entry is deleted from the map, forEach visits all of them
MapLeftKeepsAll(newData, i, gone) ==
  LET firsts == {x \in i..Len(newData) :
                   \A j \in i..(x - 1) : newData[j].filename # newData[x].filename}
  IN [n \in 1..Cardinality(firsts) |->
        MapGet(newData,
               newData[CHOOSE x \in firsts :
                         Cardinality({j \in firsts : j < x}) = n - 1].filename)]

\* variant: the entries left in the map are pushed in reverse order
RECURSIVE MapLeftReversed(_, _, _)
MapLeftReversed(newData, i, gone) ==
  IF i > Len(newData) THEN <<>>
  ELSE LET k == newData[i].filename
       IN IF k \in gone THEN MapLeftReversed(newData, i + 1, gone)
          ELSE MapLeftReversed(newData, i + 1, gone \cup {k}) \o <<MapGet(newData, k)>>

\* the entries left in the map, in insertion order, among those first set
\* by the items lo..hi.  A long run is computed by halves, the keys of the
\* first half being gone for the second, which keeps the evaluation shallow
RECURSIVE MapLeftIn(_, _, _, _)
MapLeftIn(newData, lo, hi, gone) ==
  IF lo > hi THEN <<>>
  ELSE IF hi - lo >= 32
  THEN LET mid == (lo + hi) \div 2
       IN MapLeftIn(newData, lo, mid, gone)
          \o MapLeftIn(newData, mid + 1, hi,
                       gone \cup {newData[j].filename : j \in lo..mid})
  ELSE LET k == newData[lo].filename
       IN IF k \in gone THEN MapLeftIn(newData, lo + 1, hi, gone)
          ELSE <<MapGet(newData, k)>> \o MapLeftIn(newData, lo + 1, hi, gone \cup {k})

\* newDataMap.forEach: the entries left in the map, in insertion order
\* (the order of the first occurrence of each key)
MapLeft(newData, i, gone) == MapLeftIn(newData, i, Len(newData), gone)

\* variant: the items keep the S.No they came with
RenumberKeeps(s) == s

\* merged.map((item, index) => ({...item, 'S.No': index + 1}))
Renumber(s) == [i \in DOMAIN s |-> [s[i] EXCEPT !.SNo = i]]

\* item.filename of a null item throws a TypeError
MergeThrows(existingData, newData) ==
  \/ \E i \in DOMAIN existingData : IsNull(existingData[i])
  \/ \E i \in DOMAIN newData : IsNull(newData[i])

\* variant: every item of the new data is pushed after the existing ones
mergeDataPushesAll(existingData, newData) ==
  IF Len(newData) = 0 THEN existingData
  ELSE Renumber(MergeWalk(existingData, newData) \o MapLeft(newData, 1, {}))

mergeData(existingData, newData) ==
  IF Len(newData) = 0 THEN existingData
  ELSE Renumber(MergeWalk(existingData, newData)
                \o MapLeft(newData, 1, Filenames(existingData)))

\* ------------------------------------------------------------------------
\* State
\* ------------------------------------------------------------------------
VARIABLES
  store,      \* per dataset: the object in the bucket [exists, doc, gen]
  fallback,   \* per dataset: the local fallback file [exists, doc]
  call,       \* per server process: the state of its saveData call
  hist,       \* per server process: what its current call has done (ghost)
  callsLeft,  \* number of saveData calls that may still be started
  faultsLeft  \* number of store requests that may still fail

\* the client save coordinator (module state of src/utils/saveData.ts)
VARIABLES
  saveQueue,   \* the queued saves [id, images, dataset]
  saveTimeout, \* the timer handle kept by the module, or NoTimer
  isSaving,    \* a flush is in progress
  timers,      \* the timers that are set and neither cleared nor fired
  timerSeq,    \* number of timers created so far (handles are never reused)
  flights,     \* the flushes whose network call has not been dealt with
  flushSeq,    \* number of flushes begun so far
  promise,     \* per queued save, in the order of the calls: the state of the
               \* promise given to the caller
  flushOf,     \* per queued save: the flush that took it, 0 before (ghost)
  skipped,     \* the queued saves whose flush call at the high-water mark
               \* returned at once because a flush was in progress (ghost)
  fulls,       \* number of full-update POSTs that are outstanding
  savesLeft,   \* number of saveToGCS calls the callers may still make
  emptyReturns \* number of saveToGCS calls that returned false for an empty
               \* record list (ghost)

\* one call of mergeData and of the next one on its result
VARIABLES
  existingArg,  \* mergeData's first argument, existingData
  newArg,       \* mergeData's second argument, newData
  merged,       \* what the latest mergeData call returned
  mergeStep     \* 0: arguments chosen, 1: mergeData returned, 2: its result
                \* is the existing data of a second call, 3: that call returned

\* the save handler of src/api/save-analytics.js, one server process each
VARIABLES
  dataStore,  \* per server process: the module variable dataStore
  req         \* per server process: the state of its current request

svars == <<store, fallback, call, hist, callsLeft, faultsLeft>>
cvars == <<saveQueue, saveTimeout, isSaving, timers, timerSeq, flights, flushSeq,
           promise, flushOf, skipped, fulls, savesLeft, emptyReturns>>
mvars == <<existingArg, newArg, merged, mergeStep>>
avars == <<dataStore, req>>
vars == <<svars, cvars, mvars, avars>>

\* the outcomes a store request may have: success, or failure within the bound
Outcomes == IF faultsLeft > 0 THEN {TRUE, FALSE} ELSE {TRUE}
Fault(ok) == faultsLeft' = faultsLeft - (IF ok THEN 0 ELSE 1)

NullResult == [isNull |-> TRUE, data |-> <<>>, generation |-> NullGen]
Loaded(d, g) == [isNull |-> FALSE, data |-> d, generation |-> g]

NoObject == [exists |-> FALSE, doc |-> <<>>, gen |-> 0]
NoFile == [exists |-> FALSE, doc |-> <<>>]
\* saveTimeout = null
NoTimer == 0
FallbackFiles == {NoFile, [exists |-> TRUE, doc |-> <<Rec("c", 1, 1)>>]}

\* variant: a conditional file.save is refused whatever the generation is
PreconditionRefused(expectedGeneration, object) ==
  expectedGeneration = NullGen

\* file.save with saveOptions.ifGenerationMatch set iff expectedGeneration !== null
Precondition(expectedGeneration, object) ==
  expectedGeneration = NullGen \/ expectedGeneration = object.gen

\* a committed file.save replaces the object and gives it a new generation
Put(object, doc) == [exists |-> TRUE, doc |-> doc, gen |-> object.gen + 1]

IdleCall ==
  [pc |-> "idle", data |-> <<>>, isPartialUpdate |-> FALSE, dataset |-> "existing",
   attempt |-> 0, dataToSave |-> <<>>, expectedGeneration |-> NullGen,
   dl |-> [got |-> FALSE, data |-> <<>>], md |-> [got |-> FALSE, gen |-> NullGen],
   result |-> "none"]

\* a request body of the save handler.  kind: "object" has the keys
\* isPartialUpdate and data, data being an array; "array" is a bare array;
\* "keyed" is another object with an array under one of its keys; "none" is
\* a body without any array.  flag: the value of isPartialUpdate
Body(kind, flag, data) == [kind |-> kind, flag |-> flag, data |-> data]
NoBody == Body("none", "absent", <<>>)

\* res.status(status).json({ success, imagesUpdated, ... })
Response(status, success, imagesUpdated) ==
  [status |-> status, success |-> success, imagesUpdated |-> imagesUpdated]
\* no response sent yet
NoResponse == Response(0, FALSE, 0)

\* reads, writes: calls of loadData and of saveToGCS; conflicts, commits,
\* excs: attempts ended by a 412, by a commit, by an exception;
\* storeErrors: a store request of the call failed; otherError: saveToGCS
\* returned false; fellBack: the fallback file was written;
\* readAttempt, fresh: the attempt of the latest loadData and its result;
\* readGen: the generation the object had when that read was served;
\* startGen: the generation the object had when the call began;
\* query: the dataset the request of the call was addressed to;
\* body, verified, response: the body of the request the save handler got,
\* whether its verification read is over, and the response it sent
NoHist ==
  [reads |-> 0, writes |-> 0, conflicts |-> 0, commits |-> 0, excs |-> 0,
   storeErrors |-> FALSE, otherError |-> FALSE, fellBack |-> FALSE,
   readAttempt |-> 0, fresh |-> NullResult, readGen |-> 0, startGen |-> 0,
   query |-> "existing", body |-> NoBody, verified |-> FALSE,
   response |-> NoResponse]

\* the bucket before the first request: no object yet, or a document
Objects == {NoObject, Put(NoObject, <<Rec("a", 0, 1)>>)}

\* the client coordinator when the module is loaded
ClientIdle ==
  /\ saveQueue = <<>>
  /\ saveTimeout = NoTimer
  /\ isSaving = FALSE
  /\ timers = {}
  /\ timerSeq = 0
  /\ flights = {}
  /\ flushSeq = 0
  /\ promise = <<>>
  /\ flushOf = <<>>
  /\ skipped = {}
  /\ fulls = 0
  /\ savesLeft = MaxSaves
  /\ emptyReturns = 0

\* no mergeData call is followed on its own
MergeOff ==
  /\ existingArg = <<>>
  /\ newArg = <<>>
  /\ merged = <<>>
  /\ mergeStep = 0

\* let dataStore = null.  gen: the generation of the object in the bucket
\* that the value of dataStore was read from or written as (ghost)
NoCacheAt(gen) == [isNull |-> TRUE, data |-> <<>>, gen |-> gen]
NoCache == NoCacheAt(NoObject.gen)
Cached(doc, gen) == [isNull |-> FALSE, data |-> doc, gen |-> gen]

\* startGen: the generation of the object in the bucket when the request
\* arrived; baseGen: the generation of the document the request merged its
\* records into (ghosts)
IdleReq ==
  [pc |-> "idle", data |-> <<>>, isPartialUpdate |-> FALSE, dataToSave |-> <<>>,
   result |-> "none", startGen |-> 0, baseGen |-> 0]

\* the handler of src/api/save-analytics.js gets no request
CacheOff ==
  /\ dataStore = [p \in Procs |-> NoCache]
  /\ req = [p \in Procs |-> IdleReq]

\* the requests of Spec address the dataset 'existing'
Init ==
  /\ ClientIdle
  /\ MergeOff
  /\ CacheOff
  /\ store \in {f \in [Datasets -> Objects] : \A d \in Datasets \ {"existing"} : f[d] = NoObject}
  /\ fallback \in {f \in [Datasets -> FallbackFiles] :
                     \A d \in Datasets \ {"existing"} : f[d] = NoFile}
  /\ call = [p \in Procs |-> IdleCall]
  /\ hist = [p \in Procs |-> NoHist]
  /\ callsLeft = MaxCalls
  /\ faultsLeft = MaxFaults

\* ------------------------------------------------------------------------
\* saveData: the synchronous stretches between two awaits
\* ------------------------------------------------------------------------
\* let dataToSave = data; let expectedGeneration = null
AttemptInit(c) == [c EXCEPT !.dataToSave = c.data, !.expectedGeneration = NullGen,
                            !.dl = IdleCall.dl, !.md = IdleCall.md]

\* variant: the document is loaded and merged whatever the flag
NeedsLoadAlways(c) == Len(c.data) > 0

\* variant: the document is loaded on the first attempt only
NeedsLoadOnce(c) == c.isPartialUpdate /\ Len(c.data) > 0 /\ c.attempt = 1

\* if (isPartialUpdate && Array.isArray(data) && data.length > 0)
NeedsLoad(c) == c.isPartialUpdate /\ Len(c.data) > 0

\* variant: no validation of the data before saving
InvalidNever(dataToSave) == Len(dataToSave) < 0

\* if (!dataToSave || !Array.isArray(dataToSave) || dataToSave.length === 0)
Invalid(dataToSave) == Len(dataToSave) = 0

Return(c, r) ==
  [c EXCEPT !.pc = "done", !.result = r, !.dataToSave = <<>>,
            !.expectedGeneration = NullGen, !.dl = IdleCall.dl, !.md = IdleCall.md]

\* validation, then the call of saveToGCS up to its await file.save
ValidateAndSave(c, h) ==
  IF Invalid(c.dataToSave)
  THEN [c |-> Return(c, "false"), h |-> h]
  ELSE [c |-> [c EXCEPT !.pc = "write"], h |-> [h EXCEPT !.writes = @ + 1]]

\* variant: the catch block returns false at once, whatever the attempt
OnExceptionNoRetry(c, h) ==
  [c |-> Return(c, "false"), h |-> [h EXCEPT !.excs = @ + 1]]

\* catch (error): wait and continue, or return false on the last attempt
OnException(c, h) ==
  IF c.attempt < maxRetries
  THEN [c |-> [c EXCEPT !.pc = "backoff"], h |-> [h EXCEPT !.excs = @ + 1]]
  ELSE [c |-> Return(c, "false"), h |-> [h EXCEPT !.excs = @ + 1]]

\* top of the loop body up to the first await
BeginAttempt(c, h) ==
  LET c1 == AttemptInit(c)
  IN IF NeedsLoad(c1)
     THEN [c |-> [c1 EXCEPT !.pc = "exists"],
           h |-> [h EXCEPT !.reads = @ + 1, !.readAttempt = c1.attempt,
                           !.fresh = NullResult]]
     ELSE ValidateAndSave(c1, h)

\* loadData: the GCS result if it has data, else the fallback file, else null
loadData(gcsResult, file) ==
  IF ~gcsResult.isNull THEN gcsResult
  ELSE IF file.exists THEN Loaded(file.doc, NullGen)
  ELSE NullResult

\* after await loadData: merge or first write, validation, saveToGCS call
AfterLoad(c, h0, freshResult) ==
  LET h == [h0 EXCEPT !.fresh = freshResult]
  IN
  IF ~freshResult.isNull /\ Len(freshResult.data) > 0
  THEN IF MergeThrows(freshResult.data, c.data)
       THEN OnException(c, h)
       ELSE ValidateAndSave(
              [c EXCEPT !.dataToSave = mergeData(freshResult.data, c.data),
                        !.expectedGeneration = freshResult.generation], h)
  ELSE ValidateAndSave([c EXCEPT !.dataToSave = c.data], h)

\* variant: saveToGCS lacks its return true after file.save
SaveToGCSResultNoTrue(outcome) ==
  IF outcome = "precondition" THEN "conflict" ELSE "false"

\* saveToGCS: what it returns for each outcome of file.save
SaveToGCSResult(outcome) ==
  CASE outcome = "committed" -> "true"
    [] outcome = "precondition" -> "conflict"
    [] OTHER -> "false"

\* variant: the retry test is off by one (attempt + 1 < maxRetries)
AfterSaveOffByOne(gcsResult, attempt) ==
  CASE gcsResult = "true" -> "returnTrue"
    [] gcsResult = "conflict" /\ attempt + 1 < maxRetries -> "retry"
    [] gcsResult = "conflict" -> "returnFalse"
    [] OTHER -> "break"

\* variant: without the break, the fallback code after it runs
AfterSaveFallThrough(gcsResult, attempt) ==
  CASE gcsResult = "true" -> "returnTrue"
    [] gcsResult = "conflict" /\ attempt < maxRetries -> "retry"
    [] gcsResult = "conflict" -> "returnFalse"
    [] OTHER -> "fallback"

\* saveData after await saveToGCS
AfterSave(gcsResult, attempt) ==
  CASE gcsResult = "true" -> "returnTrue"
    [] gcsResult = "conflict" /\ attempt < maxRetries -> "retry"
    [] gcsResult = "conflict" -> "returnFalse"
    [] OTHER -> "break"

\* ------------------------------------------------------------------------
\* Actions of a server process
\* ------------------------------------------------------------------------
Set(p, r) ==
  /\ call' = [call EXCEPT ![p] = r.c]
  /\ hist' = [hist EXCEPT ![p] = r.h]

\* saveData(data, isPartialUpdate, dataset) is called; h0 holds what is known
\* of the request
CallFor(p, data, partial, ds, h0) ==
  /\ call[p].pc \in {"idle", "done"}
  /\ callsLeft > 0
  /\ callsLeft' = callsLeft - 1
  /\ Set(p, BeginAttempt(
            [IdleCall EXCEPT !.data = data, !.isPartialUpdate = partial,
                             !.dataset = ds, !.attempt = 1],
            [h0 EXCEPT !.startGen = store[ds].gen]))
  /\ UNCHANGED <<store, fallback, faultsLeft, cvars, mvars, avars>>

\* saveData(data, isPartialUpdate, dataset) is called for a request that
\* was addressed to the dataset query
Call(p, data, partial, ds, query) ==
  CallFor(p, data, partial, ds, [NoHist EXCEPT !.query = query])

\* saveData(data, isPartialUpdate, dataset) is called
Start(p, data, partial, ds) == Call(p, data, partial, ds, ds)

\* const dataset = req.query?.dataset === 'ptz' ? 'ptz' : 'existing'
HandlerDataset(query) == IF query = "ptz" THEN "ptz" ELSE "existing"

\* variant: a bare array is always a full update
ParseBodyArrayFull(body) ==
  [found |-> body.kind # "none",
   data |-> body.data,
   isPartialUpdate |-> body.kind \in {"object", "keyed"} /\ body.flag = "true"]

\* the handler's reading of the body: the array it found, if any, and the
\* partial-update flag it derives
ParseBody(body) ==
  [found |-> body.kind # "none",
   data |-> body.data,
   isPartialUpdate |->
     CASE body.kind = "object" -> body.flag = "true"
       [] body.kind = "array" -> Len(body.data) < HeuristicSize
       [] body.kind = "keyed" -> body.flag = "true" \/ Len(body.data) < HeuristicSize
       [] OTHER -> FALSE]

\* variant: the handler lets an empty array through to saveData
EmptyRejectedNever(data) == Len(data) < 0

\* if (data.length === 0) return res.status(400)
EmptyRejected(data) == Len(data) = 0

\* the handler has answered the previous request of this process
Answered(p) ==
  \/ call[p].pc = "idle"
  \/ call[p].pc = "done" /\ hist[p].response.status # 0

\* return res.status(400).json({ success: false, error })
Reject(p, query, body) ==
  /\ callsLeft > 0
  /\ callsLeft' = callsLeft - 1
  /\ call' = [call EXCEPT ![p] = IdleCall]
  /\ hist' = [hist EXCEPT ![p] = [NoHist EXCEPT !.query = query, !.body = body,
                                                !.response = Response(400, FALSE, 0)]]
  /\ UNCHANGED <<store, fallback, faultsLeft, cvars, mvars, avars>>

\* the save handler receives POST ?dataset=query with the given body: it
\* answers 400, or calls saveData
Handle(p, query, body) ==
  LET parsed == ParseBody(body)
  IN /\ Answered(p)
     /\ IF ~parsed.found \/ EmptyRejected(parsed.data)
        THEN Reject(p, query, body)
        ELSE CallFor(p, parsed.data, parsed.isPartialUpdate, HandlerDataset(query),
                     [NoHist EXCEPT !.query = query, !.body = body])

\* if (isPartialUpdate && data.length > 0 && data.length <= 5), and
\* data[0]?.filename is set
NeedsVerify(c) ==
  /\ c.isPartialUpdate /\ Len(c.data) > 0 /\ Len(c.data) <= 5
  /\ ~IsNull(c.data[1])

\* saveData has returned and the handler has not answered yet
Unanswered(p) == call[p].pc = "done" /\ hist[p].response.status = 0

\* after a successful small partial save: await loadData(dataset) settles;
\* its result is only logged, and an error of the check is caught
VerifyReturn(p, ok) ==
  /\ Unanswered(p)
  /\ call[p].result = "true"
  /\ NeedsVerify(call[p]) /\ ~hist[p].verified
  /\ hist' = [hist EXCEPT ![p].verified = TRUE,
                          ![p].storeErrors = @ \/ ~ok]
  /\ Fault(ok)
  /\ UNCHANGED <<store, fallback, call, callsLeft, cvars, mvars, avars>>

\* variant: the handler answers 200 whatever saveData returned
ResponseForAlwaysOk(success, n) == Response(200, TRUE, n)

\* if (success) res.status(200).json({ success: true, imagesUpdated:
\* data.length }) else res.status(500).json({ success: false })
ResponseFor(success, n) ==
  IF success THEN Response(200, TRUE, n) ELSE Response(500, FALSE, 0)

\* the handler sends its response
Respond(p) ==
  /\ Unanswered(p)
  /\ call[p].result = "true" => (~NeedsVerify(call[p]) \/ hist[p].verified)
  /\ hist' = [hist EXCEPT ![p].response =
                 ResponseFor(call[p].result = "true", Len(call[p].data))]
  /\ UNCHANGED <<store, fallback, call, callsLeft, faultsLeft, cvars, mvars, avars>>

\* loadFromGCS: await file.exists() settles
ExistsReturn(p, ok) ==
  LET c == call[p]
      h == hist[p]
  IN /\ c.pc = "exists"
     /\ IF ok /\ store[c.dataset].exists
        THEN Set(p, [c |-> [c EXCEPT !.pc = "download"], h |-> h])
        ELSE Set(p, AfterLoad(c, [h EXCEPT !.storeErrors = @ \/ ~ok,
                                           !.readGen = store[c.dataset].gen],
                              loadData(NullResult, fallback[c.dataset])))
     /\ Fault(ok)
     /\ UNCHANGED <<store, fallback, callsLeft, cvars, mvars, avars>>

\* loadFromGCS returns once both requests of the Promise.all have settled
LoadedFromGCS(p, c, h) ==
  Set(p, AfterLoad(c, [h EXCEPT !.readGen = c.md.gen],
                   loadData(Loaded(c.dl.data, c.md.gen), fallback[c.dataset])))

LoadFailed(p, c, h) ==
  Set(p, AfterLoad(c, [h EXCEPT !.storeErrors = TRUE,
                                !.readGen = store[c.dataset].gen],
                   loadData(NullResult, fallback[c.dataset])))

\* file.download() settles
DownloadReturn(p, ok) ==
  LET c == call[p]
      h == hist[p]
      c1 == [c EXCEPT !.dl = [got |-> TRUE, data |-> store[c.dataset].doc]]
  IN /\ c.pc = "download"
     /\ ~c.dl.got
     /\ IF ~ok THEN LoadFailed(p, c, h)
        ELSE IF c.md.got THEN LoadedFromGCS(p, c1, h)
        ELSE Set(p, [c |-> c1, h |-> h])
     /\ Fault(ok)
     /\ UNCHANGED <<store, fallback, callsLeft, cvars, mvars, avars>>

\* file.getMetadata() settles
MetadataReturn(p, ok) ==
  LET c == call[p]
      h == hist[p]
      c1 == [c EXCEPT !.md = [got |-> TRUE, gen |-> store[c.dataset].gen]]
  IN /\ c.pc = "download"
     /\ ~c.md.got
     /\ IF ~ok THEN LoadFailed(p, c, h)
        ELSE IF c.dl.got THEN LoadedFromGCS(p, c1, h)
        ELSE Set(p, [c |-> c1, h |-> h])
     /\ Fault(ok)
     /\ UNCHANGED <<store, fallback, callsLeft, cvars, mvars, avars>>

\* saveToGCS: await file.save settles, then saveData handles the result
SaveReturn(p, ok) ==
  LET c == call[p]
      h == hist[p]
      object == store[c.dataset]
      outcome == IF ~ok THEN "error"
                 ELSE IF Precondition(c.expectedGeneration, object) THEN "committed"
                 ELSE "precondition"
      gcsResult == SaveToGCSResult(outcome)
      next == AfterSave(gcsResult, c.attempt)
      h1 == [h EXCEPT !.commits = @ + (IF outcome = "committed" THEN 1 ELSE 0),
                      !.conflicts = @ + (IF gcsResult = "conflict" THEN 1 ELSE 0),
                      !.storeErrors = @ \/ ~ok,
                      !.otherError = @ \/ gcsResult = "false"]
  IN /\ c.pc = "write"
     /\ store' = IF outcome = "committed"
                 THEN [store EXCEPT ![c.dataset] = Put(object, c.dataToSave)]
                 ELSE store
     /\ CASE next = "returnTrue" ->
               Set(p, [c |-> Return(c, "true"), h |-> h1]) /\ UNCHANGED fallback
          [] next = "retry" ->
               Set(p, [c |-> [c EXCEPT !.pc = "backoff"], h |-> h1]) /\ UNCHANGED fallback
          [] next = "returnFalse" \/ next = "break" ->
               Set(p, [c |-> Return(c, "false"), h |-> h1]) /\ UNCHANGED fallback
          [] OTHER ->
               \* the file-system fallback after the loop's break statement
               /\ Set(p, [c |-> Return(c, "true"), h |-> [h1 EXCEPT !.fellBack = TRUE]])
               /\ fallback' = [fallback EXCEPT ![c.dataset] =
                                 [exists |-> TRUE, doc |-> c.dataToSave]]
     /\ Fault(ok)
     /\ UNCHANGED <<callsLeft, cvars, mvars, avars>>

\* variant: the loop does not count its attempts
NextAttemptSame(attempt) == attempt

\* for (...; attempt++)
NextAttempt(attempt) == attempt + 1

\* the backoff timer of a retry fires: continue, attempt++, the loop test,
\* then the next loop body or the return false after the loop
BackoffDone(p) ==
  /\ call[p].pc = "backoff"
  /\ LET c == [call[p] EXCEPT !.attempt = NextAttempt(@)]
     IN IF c.attempt <= maxRetries
        THEN Set(p, BeginAttempt(c, hist[p]))
        ELSE Set(p, [c |-> Return(c, "false"), h |-> hist[p]])
  /\ UNCHANGED <<store, fallback, callsLeft, faultsLeft, cvars, mvars, avars>>

Next ==
  \/ \E p \in Procs, data \in Batches, partial \in BOOLEAN :
        Start(p, data, partial, "existing")
  \/ \E p \in Procs, ok \in Outcomes : ExistsReturn(p, ok)
  \/ \E p \in Procs, ok \in Outcomes : DownloadReturn(p, ok)
  \/ \E p \in Procs, ok \in Outcomes : MetadataReturn(p, ok)
  \/ \E p \in Procs, ok \in Outcomes : SaveReturn(p, ok)
  \/ \E p \in Procs : BackoffDone(p)

Spec == Init /\ [][Next]_vars

\* ------------------------------------------------------------------------
\* Exhausted retries: one document, writers that keep committing
\* ------------------------------------------------------------------------
InitRetry ==
  /\ ClientIdle
  /\ MergeOff
  /\ CacheOff
  /\ store = [d \in Datasets |-> IF d = "existing" THEN Put(NoObject, <<Rec("a", 0, 1)>>)
                                  ELSE NoObject]
  /\ fallback = [d \in Datasets |-> NoFile]
  /\ call = [p \in Procs |-> IdleCall]
  /\ hist = [p \in Procs |-> NoHist]
  /\ callsLeft = RetryCalls
  /\ faultsLeft = 0

NextRetry ==
  \/ \E p \in Procs, data \in RealBatches :
        Start(p, data, TRUE, "existing")
  \/ \E p \in Procs, ok \in Outcomes : ExistsReturn(p, ok)
  \/ \E p \in Procs, ok \in Outcomes : DownloadReturn(p, ok)
  \/ \E p \in Procs, ok \in Outcomes : MetadataReturn(p, ok)
  \/ \E p \in Procs, ok \in Outcomes : SaveReturn(p, ok)
  \/ \E p \in Procs : BackoffDone(p)

SpecRetry == InitRetry /\ [][NextRetry]_vars

\* ------------------------------------------------------------------------
\* Contention: one document, partial saves next to full saves that may put
\* a null record into the document
\* ------------------------------------------------------------------------
\* the requests of the writers: a partial save of one record, and full
\* saves of a document with a null record and of a document without one
ProgressRequests ==
  {[data |-> <<Rec("b", 2, 1)>>, isPartialUpdate |-> TRUE],
   [data |-> <<NullRec>>, isPartialUpdate |-> FALSE],
   [data |-> <<Rec("a", 1, 1)>>, isPartialUpdate |-> FALSE]}

InitProgress ==
  /\ ClientIdle
  /\ MergeOff
  /\ CacheOff
  /\ store = [d \in Datasets |-> IF d = "existing" THEN Put(NoObject, <<Rec("a", 0, 1)>>)
                                  ELSE NoObject]
  /\ fallback = [d \in Datasets |-> NoFile]
  /\ call = [p \in Procs |-> IdleCall]
  /\ hist = [p \in Procs |-> NoHist]
  /\ callsLeft = ProgressCalls
  /\ faultsLeft = 0

NextProgress ==
  \/ \E p \in Procs, r \in ProgressRequests :
        Start(p, r.data, r.isPartialUpdate, "existing")
  \/ \E p \in Procs, ok \in Outcomes : ExistsReturn(p, ok)
  \/ \E p \in Procs, ok \in Outcomes : DownloadReturn(p, ok)
  \/ \E p \in Procs, ok \in Outcomes : MetadataReturn(p, ok)
  \/ \E p \in Procs, ok \in Outcomes : SaveReturn(p, ok)
  \/ \E p \in Procs : BackoffDone(p)

SpecProgress == InitProgress /\ [][NextProgress]_vars

\* ------------------------------------------------------------------------
\* Termination: store requests that settle and backoff timers that fire
\* ------------------------------------------------------------------------
InitTermination ==
  /\ ClientIdle
  /\ MergeOff
  /\ CacheOff
  /\ store \in {f \in [Datasets -> Objects] : \A d \in Datasets \ {"existing"} : f[d] = NoObject}
  /\ fallback = [d \in Datasets |-> NoFile]
  /\ call = [p \in Procs |-> IdleCall]
  /\ hist = [p \in Procs |-> NoHist]
  /\ callsLeft = TerminationCalls
  /\ faultsLeft = MaxFaults

\* the awaited request or timer of the call of p settles
Progress(p) ==
  \/ \E ok \in Outcomes : ExistsReturn(p, ok)
  \/ \E ok \in Outcomes : DownloadReturn(p, ok)
  \/ \E ok \in Outcomes : MetadataReturn(p, ok)
  \/ \E ok \in Outcomes : SaveReturn(p, ok)
  \/ BackoffDone(p)

\* the record arrays of the calls: a record, or a null in place of one
TerminationBatches == {<<Rec("b", 2, 1)>>, <<NullRec>>}

NextTermination ==
  \/ \E p \in Procs, data \in TerminationBatches :
        Start(p, data, TRUE, "existing")
  \/ \E p \in Procs : Progress(p)

FairSpecTermination ==
  /\ InitTermination
  /\ [][NextTermination]_vars
  /\ \A p \in Procs : WF_vars(Progress(p))

\* ------------------------------------------------------------------------
\* Partial saves of records that carry any S.No
\* ------------------------------------------------------------------------
\* the S.No a request record carries when its sender did not number it by
\* position
StaleSNo == 7
NumberingBatches == {<<Rec("a", 1, 1)>>, <<Rec("b", 2, StaleSNo)>>}

InitNumbering ==
  /\ ClientIdle
  /\ MergeOff
  /\ CacheOff
  /\ store \in {f \in [Datasets -> Objects] : \A d \in Datasets \ {"existing"} : f[d] = NoObject}
  /\ fallback = [d \in Datasets |-> NoFile]
  /\ call = [p \in Procs |-> IdleCall]
  /\ hist = [p \in Procs |-> NoHist]
  /\ callsLeft = NumberingCalls
  /\ faultsLeft = 0

NextNumbering ==
  \/ \E p \in Procs, data \in NumberingBatches : Start(p, data, TRUE, "existing")
  \/ \E p \in Procs, ok \in Outcomes : ExistsReturn(p, ok)
  \/ \E p \in Procs, ok \in Outcomes : DownloadReturn(p, ok)
  \/ \E p \in Procs, ok \in Outcomes : MetadataReturn(p, ok)
  \/ \E p \in Procs, ok \in Outcomes : SaveReturn(p, ok)
  \/ \E p \in Procs : BackoffDone(p)

SpecNumbering == InitNumbering /\ [][NextNumbering]_vars

\* ------------------------------------------------------------------------
\* Requests addressed to any of the three datasets
\* ------------------------------------------------------------------------
InitDatasets ==
  /\ ClientIdle
  /\ MergeOff
  /\ CacheOff
  /\ store \in {[d \in Datasets |-> o] : o \in Objects}
  /\ fallback = [d \in Datasets |-> NoFile]
  /\ call = [p \in Procs |-> IdleCall]
  /\ hist = [p \in Procs |-> NoHist]
  /\ callsLeft = DatasetCalls
  /\ faultsLeft = 0

NextDatasets ==
  \/ \E p \in Procs, data \in Batches, partial \in BOOLEAN, ds \in Datasets :
        Start(p, data, partial, ds)
  \/ \E p \in Procs, ok \in Outcomes : ExistsReturn(p, ok)
  \/ \E p \in Procs, ok \in Outcomes : DownloadReturn(p, ok)
  \/ \E p \in Procs, ok \in Outcomes : MetadataReturn(p, ok)
  \/ \E p \in Procs, ok \in Outcomes : SaveReturn(p, ok)
  \/ \E p \in Procs : BackoffDone(p)

SpecDatasets == InitDatasets /\ [][NextDatasets]_vars

\* ------------------------------------------------------------------------
\* Requests that reach saveData through the save handler
\* ------------------------------------------------------------------------
\* the record arrays of the requests: one record, or two records of one key
HandlerBatches == {<<Rec("a", 1, 1)>>, <<Rec("b", 2, 1)>>, <<Rec("a", 1, 1), Rec("a", 3, 2)>>}

InitHandler ==
  /\ ClientIdle
  /\ MergeOff
  /\ CacheOff
  /\ store \in {[d \in Datasets |-> o] : o \in Objects}
  /\ fallback = [d \in Datasets |-> NoFile]
  /\ call = [p \in Procs |-> IdleCall]
  /\ hist = [p \in Procs |-> NoHist]
  /\ callsLeft = HandlerCalls
  /\ faultsLeft = 0

NextHandler ==
  \/ \E p \in Procs, query \in Datasets, data \in HandlerBatches, flag \in {"true", "false"} :
        Handle(p, query, Body("object", flag, data))
  \/ \E p \in Procs, ok \in Outcomes : VerifyReturn(p, ok)
  \/ \E p \in Procs : Respond(p)
  \/ \E p \in Procs, ok \in Outcomes : ExistsReturn(p, ok)
  \/ \E p \in Procs, ok \in Outcomes : DownloadReturn(p, ok)
  \/ \E p \in Procs, ok \in Outcomes : MetadataReturn(p, ok)
  \/ \E p \in Procs, ok \in Outcomes : SaveReturn(p, ok)
  \/ \E p \in Procs : BackoffDone(p)

SpecHandler == InitHandler /\ [][NextHandler]_vars

\* ------------------------------------------------------------------------
\* The responses of the save handler: bodies of every kind, store failures
\* ------------------------------------------------------------------------
ResponseBodies ==
  {Body("object", "true", <<Rec("a", 1, 1)>>),
   Body("object", "false", <<Rec("a", 1, 1)>>),
   Body("object", "true", <<NullRec>>),
   Body("object", "true", <<>>),
   Body("array", "absent", <<Rec("b", 2, 1)>>),
   Body("array", "absent", <<>>),
   Body("keyed", "absent", <<Rec("b", 2, 1)>>),
   Body("keyed", "false", <<>>),
   NoBody}

InitResponse ==
  /\ ClientIdle
  /\ MergeOff
  /\ CacheOff
  /\ store \in {f \in [Datasets -> Objects] : \A d \in Datasets \ {"existing"} : f[d] = NoObject}
  /\ fallback = [d \in Datasets |-> NoFile]
  /\ call = [p \in Procs |-> IdleCall]
  /\ hist = [p \in Procs |-> NoHist]
  /\ callsLeft = ResponseCalls
  /\ faultsLeft = MaxFaults

NextResponse ==
  \/ \E p \in Procs, body \in ResponseBodies : Handle(p, "existing", body)
  \/ \E p \in Procs, ok \in Outcomes : VerifyReturn(p, ok)
  \/ \E p \in Procs : Respond(p)
  \/ \E p \in Procs, ok \in Outcomes : ExistsReturn(p, ok)
  \/ \E p \in Procs, ok \in Outcomes : DownloadReturn(p, ok)
  \/ \E p \in Procs, ok \in Outcomes : MetadataReturn(p, ok)
  \/ \E p \in Procs, ok \in Outcomes : SaveReturn(p, ok)
  \/ \E p \in Procs : BackoffDone(p)

SpecResponse == InitResponse /\ [][NextResponse]_vars

\* ------------------------------------------------------------------------
\* Bare arrays around the size at which the handler takes them for full saves
\* ------------------------------------------------------------------------
\* an array of n records with the keys "1" .. "n", numbered by position
Numbered100(n) == [i \in 1..n |-> Rec(ToString(i), 1, i)]

HeuristicBodies ==
  {Body("array", "absent", Numbered100(n)) : n \in {HeuristicSize - 1, HeuristicSize}}

InitHeuristic ==
  /\ ClientIdle
  /\ MergeOff
  /\ CacheOff
  /\ store \in {f \in [Datasets -> Objects] : \A d \in Datasets \ {"existing"} : f[d] = NoObject}
  /\ fallback = [d \in Datasets |-> NoFile]
  /\ call = [p \in Procs |-> IdleCall]
  /\ hist = [p \in Procs |-> NoHist]
  /\ callsLeft = HeuristicCalls
  /\ faultsLeft = 0

NextHeuristic ==
  \/ \E p \in Procs, body \in HeuristicBodies : Handle(p, "existing", body)
  \/ \E p \in Procs : Respond(p)
  \/ \E p \in Procs, ok \in Outcomes : ExistsReturn(p, ok)
  \/ \E p \in Procs, ok \in Outcomes : DownloadReturn(p, ok)
  \/ \E p \in Procs, ok \in Outcomes : MetadataReturn(p, ok)
  \/ \E p \in Procs, ok \in Outcomes : SaveReturn(p, ok)
  \/ \E p \in Procs : BackoffDone(p)

SpecHeuristic == InitHeuristic /\ [][NextHeuristic]_vars

\* ------------------------------------------------------------------------
\* The save handler of src/api/save-analytics.js and its dataStore
\* ------------------------------------------------------------------------
\* mergeData of src/api/save-analytics.js
mergeDataCached(cache, newData) ==
  IF cache.isNull THEN newData
  ELSE Renumber(MergeWalk(cache.data, newData)
                \o MapLeft(newData, 1, Filenames(cache.data)))

\* saveData after dataStore is known: merge, validation, saveToGCS call
CacheMergeAndSave(r, cache) ==
  LET dataToSave == IF r.isPartialUpdate /\ Len(r.data) > 0
                    THEN mergeDataCached(cache, r.data) ELSE r.data
  IN IF Invalid(dataToSave)
     THEN [r EXCEPT !.pc = "done", !.result = "false"]
     ELSE [r EXCEPT !.pc = "write", !.dataToSave = dataToSave, !.baseGen = cache.gen]

\* saveData up to its first await
CacheSaveData(r, cache) ==
  IF r.isPartialUpdate /\ Len(r.data) > 0 /\ cache.isNull
  THEN [r EXCEPT !.pc = "sload"]
  ELSE CacheMergeAndSave(r, cache)

\* the handler gets a request: if (!dataStore) dataStore = await loadData(),
\* then saveData
CacheRequest(p, data, partial) ==
  LET cache == dataStore[p]
      r == [IdleReq EXCEPT !.data = data, !.isPartialUpdate = partial,
                           !.startGen = store["existing"].gen]
  IN /\ req[p].pc \in {"idle", "done"}
     /\ callsLeft > 0
     /\ callsLeft' = callsLeft - 1
     /\ req' = [req EXCEPT ![p] = IF cache.isNull THEN [r EXCEPT !.pc = "hload"]
                                   ELSE CacheSaveData(r, cache)]
     /\ UNCHANGED <<store, fallback, call, hist, faultsLeft, dataStore, cvars, mvars>>

\* await loadData() settles, in the handler or in saveData
CacheLoadReturn(p) ==
  LET object == store["existing"]
      cache == IF object.exists THEN Cached(object.doc, object.gen)
               ELSE NoCacheAt(object.gen)
  IN /\ req[p].pc \in {"hload", "sload"}
     /\ dataStore' = [dataStore EXCEPT ![p] = cache]
     /\ req' = [req EXCEPT ![p] = IF req[p].pc = "hload"
                                   THEN CacheSaveData(req[p], cache)
                                   ELSE CacheMergeAndSave(req[p], cache)]
     /\ UNCHANGED <<svars, cvars, mvars>>

\* await saveToGCS(dataToSave) settles: file.save without precondition, then
\* dataStore = dataToSave
CacheSaveReturn(p) ==
  /\ req[p].pc = "write"
  /\ store' = [store EXCEPT !["existing"] = Put(@, req[p].dataToSave)]
  /\ dataStore' = [dataStore EXCEPT ![p] = Cached(req[p].dataToSave,
                                                  store'["existing"].gen)]
  /\ req' = [req EXCEPT ![p].pc = "done", ![p].result = "true"]
  /\ UNCHANGED <<fallback, call, hist, callsLeft, faultsLeft, cvars, mvars>>

CacheBatches == {<<Rec("a", 1, 1)>>, <<Rec("b", 2, 1)>>}

InitCache ==
  /\ ClientIdle
  /\ MergeOff
  /\ CacheOff
  /\ store \in {f \in [Datasets -> Objects] : \A d \in Datasets \ {"existing"} : f[d] = NoObject}
  /\ fallback = [d \in Datasets |-> NoFile]
  /\ call = [p \in Procs |-> IdleCall]
  /\ hist = [p \in Procs |-> NoHist]
  /\ callsLeft = CacheCalls
  /\ faultsLeft = 0

NextCache ==
  \/ \E p \in Procs, data \in CacheBatches : CacheRequest(p, data, TRUE)
  \/ \E p \in Procs : CacheLoadReturn(p)
  \/ \E p \in Procs : CacheSaveReturn(p)

SpecCache == InitCache /\ [][NextCache]_vars

\* ------------------------------------------------------------------------
\* The client save coordinator
\* ------------------------------------------------------------------------
\* an image as the callers pass it: its key and the version of its content
Img(k, ver) == [filename |-> k, ver |-> ver]
BulkNames == <<"a", "k2", "k3", "k4", "k5", "k6", "k7", "k8", "k9">>
\* the image lists of the callers: one image, or a bulk of nine
Bulk(ver) == [i \in DOMAIN BulkNames |-> Img(BulkNames[i], ver)]
ImageLists(ver) == {<<Img("a", ver)>>, <<Img("b", ver)>>, Bulk(ver)}

\* saveQueue.reduce((sum, q) => sum + q.images.length, 0)
RECURSIVE TotalImages(_)
TotalImages(queue) ==
  IF queue = <<>> THEN 0 ELSE Len(Head(queue).images) + TotalImages(Tail(queue))

\* the images of the queued saves, in the order the two loops visit them
RECURSIVE QueuedImages(_)
QueuedImages(queue) ==
  IF queue = <<>> THEN <<>> ELSE Head(queue).images \o QueuedImages(Tail(queue))

\* variant: imageMap keeps the first version of a filename (no overwrite)
AllImagesFirstWins(queue) ==
  LET imgs == QueuedImages(queue)
      firsts == {i \in DOMAIN imgs :
                   \A j \in 1..(i - 1) : imgs[j].filename # imgs[i].filename}
  IN [n \in 1..Cardinality(firsts) |->
        imgs[CHOOSE i \in firsts : Cardinality({j \in firsts : j < i}) = n - 1]]

\* Array.from(imageMap.values()): one image per filename, in the order of the
\* first set of each key, with the value of its last set
AllImages(queue) == MapLeft(QueuedImages(queue), 1, {})

\* convertToSavedFormat: the saved record of each image, S.No = index + 1
convertToSavedFormat(images) ==
  [i \in DOMAIN images |-> [filename |-> images[i].filename, v |-> images[i].ver, SNo |-> i]]

Ids(batch) == {batch[i].id : i \in DOMAIN batch}

\* variant: processSaveQueue does not test isSaving
CanProcessNoFlag(saving, queue) == Len(queue) > 0

\* if (isSaving || saveQueue.length === 0) return
CanProcess(saving, queue) == ~saving /\ Len(queue) > 0

\* variant: the finally block never sets a new timer
ReschedulesNever(queue) == Len(queue) < 0

\* finally: if (saveQueue.length > 0) saveTimeout = setTimeout(...)
Reschedules(queue) == Len(queue) > 0

\* variant: the dataset of the request enqueued last
FlushDatasetLast(queue) == queue[Len(queue)].dataset

\* const dataset = queueToProcess[0]?.dataset || 'existing'
FlushDataset(queue) == queue[1].dataset

\* processSaveQueue up to its await fetch, called with the given queue,
\* timer handle and set of pending timers (taken: the ghost flushOf)
ProcessSaveQueue(queue, timeout, pending, taken) ==
  IF CanProcess(isSaving, queue)
  THEN /\ isSaving' = TRUE
       /\ saveQueue' = <<>>
       /\ saveTimeout' = NoTimer
       /\ timers' = pending
       /\ flushSeq' = flushSeq + 1
       /\ flights' = flights \cup
            {[no |-> flushSeq + 1, batch |-> queue, dataset |-> FlushDataset(queue),
              payload |-> convertToSavedFormat(AllImages(queue)), phase |-> "fetch"]}
       /\ flushOf' = [i \in DOMAIN taken |->
                        IF i \in Ids(queue) THEN flushSeq + 1 ELSE taken[i]]
  ELSE /\ saveQueue' = queue
       /\ saveTimeout' = timeout
       /\ timers' = pending
       /\ flushOf' = taken
       /\ UNCHANGED <<isSaving, flushSeq, flights>>

\* variant: the queued requests are counted, not their images
AtHighWaterByRequests(queue) == Len(queue) >= MAX_QUEUE_SIZE

\* if (totalImagesInQueue >= MAX_QUEUE_SIZE)
AtHighWater(queue) == TotalImages(queue) >= MAX_QUEUE_SIZE

\* variant: the timer that is pending is left to run
ClearTimeoutNever(timeout, pending) == pending

\* if (saveTimeout) { clearTimeout(saveTimeout); saveTimeout = null }
ClearTimeout(timeout, pending) ==
  IF timeout # NoTimer THEN pending \ {timeout} ELSE pending

\* saveToGCS(images, true, dataset) with images: the request is queued and
\* the flush is started at the high-water mark or scheduled
Enqueue(images, ds) ==
  LET id == Len(promise) + 1
      queue == Append(saveQueue, [id |-> id, images |-> images, dataset |-> ds])
      pending == ClearTimeout(saveTimeout, timers)
  IN /\ savesLeft > 0
     /\ savesLeft' = savesLeft - 1
     /\ promise' = Append(promise, "pending")
     /\ IF AtHighWater(queue)
        THEN /\ ProcessSaveQueue(queue, NoTimer, pending, Append(flushOf, 0))
             /\ skipped' = IF flushSeq' = flushSeq THEN skipped \cup {id} ELSE skipped
             /\ UNCHANGED timerSeq
        ELSE /\ saveQueue' = queue
             /\ timerSeq' = timerSeq + 1
             /\ saveTimeout' = timerSeq + 1
             /\ timers' = pending \cup {timerSeq + 1}
             /\ flushOf' = Append(flushOf, 0)
             /\ UNCHANGED <<isSaving, flushSeq, flights, skipped>>
     /\ UNCHANGED <<fulls, emptyReturns, svars, mvars, avars>>

\* variant: the empty list is tested after the pending timer was cleared
SaveEmptyAfterClear ==
  /\ savesLeft > 0
  /\ savesLeft' = savesLeft - 1
  /\ emptyReturns' = emptyReturns + 1
  /\ timers' = ClearTimeout(saveTimeout, timers)
  /\ saveTimeout' = NoTimer
  /\ UNCHANGED <<saveQueue, isSaving, timerSeq, flights, flushSeq, promise,
                 flushOf, skipped, fulls, svars, mvars, avars>>

\* saveToGCS([]): the guard on the record list returns false before the
\* function touches the queue, the timer or the network
SaveEmpty ==
  /\ savesLeft > 0
  /\ savesLeft' = savesLeft - 1
  /\ emptyReturns' = emptyReturns + 1
  /\ UNCHANGED <<saveQueue, saveTimeout, isSaving, timers, timerSeq, flights,
                 flushSeq, promise, flushOf, skipped, fulls, svars, mvars, avars>>

\* saveToGCS(images, false, dataset): the POST of a full update is sent
FullSave ==
  /\ savesLeft > 0
  /\ savesLeft' = savesLeft - 1
  /\ fulls' = fulls + 1
  /\ UNCHANGED <<saveQueue, saveTimeout, isSaving, timers, timerSeq, flights,
                 flushSeq, promise, flushOf, skipped, emptyReturns, svars, mvars, avars>>

\* the POST of a full update settles and saveToGCS returns
FullReturn ==
  /\ fulls > 0
  /\ fulls' = fulls - 1
  /\ UNCHANGED <<saveQueue, saveTimeout, isSaving, timers, timerSeq, flights,
                 flushSeq, promise, flushOf, skipped, savesLeft, emptyReturns, svars, mvars, avars>>

\* a timer set by setTimeout(processSaveQueue, SAVE_DEBOUNCE_MS) fires
TimerFire(t) ==
  /\ t \in timers
  /\ ProcessSaveQueue(saveQueue, saveTimeout, timers \ {t}, flushOf)
  /\ UNCHANGED <<timerSeq, promise, skipped, fulls, savesLeft, emptyReturns, svars, mvars, avars>>

\* variant: a failed flush puts its batch back into the queue
SettleRequeue(f, how) ==
  LET queue == IF how = "rejected" THEN f.batch \o saveQueue ELSE saveQueue
  IN /\ promise' = [i \in DOMAIN promise |->
                       IF i \in Ids(f.batch) /\ promise[i] = "pending" /\ how = "resolved"
                       THEN how ELSE promise[i]]
     /\ saveQueue' = queue
     /\ flights' = flights \ {f}
     /\ isSaving' = FALSE
     /\ IF Reschedules(queue)
        THEN /\ timerSeq' = timerSeq + 1
             /\ saveTimeout' = timerSeq + 1
             /\ timers' = timers \cup {timerSeq + 1}
        ELSE UNCHANGED <<timerSeq, saveTimeout, timers>>
     /\ UNCHANGED <<flushSeq, flushOf, skipped, fulls, savesLeft, emptyReturns, svars, mvars, avars>>

\* the promises of the batch are settled, then the finally block
Settle(f, how) ==
  /\ promise' = [i \in DOMAIN promise |->
                   IF i \in Ids(f.batch) /\ promise[i] = "pending" THEN how
                   ELSE promise[i]]
  /\ flights' = flights \ {f}
  /\ isSaving' = FALSE
  /\ IF Reschedules(saveQueue)
     THEN /\ timerSeq' = timerSeq + 1
          /\ saveTimeout' = timerSeq + 1
          /\ timers' = timers \cup {timerSeq + 1}
     ELSE UNCHANGED <<timerSeq, saveTimeout, timers>>
  /\ UNCHANGED <<saveQueue, flushSeq, flushOf, skipped, fulls, savesLeft, emptyReturns, svars, mvars, avars>>

\* await fetch settles: a response (ok or not), or a transport error
FetchReturn(f, outcome) ==
  /\ f \in flights
  /\ f.phase = "fetch"
  /\ IF outcome = "throw"
     THEN Settle(f, "rejected")
     ELSE /\ flights' = (flights \ {f}) \cup
                {[f EXCEPT !.phase = IF outcome = "ok" THEN "json" ELSE "errjson"]}
          /\ UNCHANGED <<saveQueue, saveTimeout, isSaving, timers, timerSeq, flushSeq,
                         promise, flushOf, skipped, fulls, savesLeft, emptyReturns, svars, mvars, avars>>

\* await response.json() settles, with a parsed body or with an error
JsonReturn(f, parsed) ==
  /\ f \in flights
  /\ f.phase \in {"json", "errjson"}
  /\ Settle(f, IF f.phase = "json" /\ parsed THEN "resolved" ELSE "rejected")

\* the server side is not part of the client specifications
ServerOff ==
  /\ store = [d \in Datasets |-> NoObject]
  /\ fallback = [d \in Datasets |-> NoFile]
  /\ call = [p \in Procs |-> IdleCall]
  /\ hist = [p \in Procs |-> NoHist]
  /\ callsLeft = 0
  /\ faultsLeft = 0

InitClient == ClientIdle /\ ServerOff /\ MergeOff /\ CacheOff

TimerFires == \E t \in timers : TimerFire(t)
FetchReturns == \E f \in flights, outcome \in {"ok", "notok", "throw"} : FetchReturn(f, outcome)
JsonReturns == \E f \in flights, parsed \in BOOLEAN : JsonReturn(f, parsed)

NextClient ==
  \/ \E images \in ImageLists(Len(promise) + 1), ds \in Datasets : Enqueue(images, ds)
  \/ SaveEmpty
  \/ FullSave
  \/ FullReturn
  \/ TimerFires
  \/ FetchReturns
  \/ JsonReturns

SpecClient == InitClient /\ [][NextClient]_vars

\* the partial saves of one dataset, with timers that fire and network
\* calls that return
InitDelivery ==
  /\ ServerOff
  /\ MergeOff
  /\ CacheOff
  /\ saveQueue = <<>>
  /\ saveTimeout = NoTimer
  /\ isSaving = FALSE
  /\ timers = {}
  /\ timerSeq = 0
  /\ flights = {}
  /\ flushSeq = 0
  /\ promise = <<>>
  /\ flushOf = <<>>
  /\ skipped = {}
  /\ fulls = 0
  /\ savesLeft = DeliverySaves
  /\ emptyReturns = 0

NextDelivery ==
  \/ \E images \in {<<Img("a", Len(promise) + 1)>>, Bulk(Len(promise) + 1)} :
        Enqueue(images, "existing")
  \/ TimerFires
  \/ FetchReturns
  \/ JsonReturns

FairSpecDelivery ==
  /\ InitDelivery
  /\ [][NextDelivery]_vars
  /\ WF_vars(TimerFires)
  /\ WF_vars(FetchReturns)
  /\ WF_vars(JsonReturns)

\* ------------------------------------------------------------------------
\* mergeData on its own: a call, and a second call on the result of the first
\* ------------------------------------------------------------------------
MergeKeys == {"a", "b", "c"}
\* arrays of at most MergeLen records, records of one key included; the
\* records of the existing data carry a stale S.No
Arrays(val, s) ==
  UNION {[1..n -> {Rec(k, val, s) : k \in MergeKeys}] : n \in 0..MergeLen}

InitMerge ==
  /\ ClientIdle
  /\ ServerOff
  /\ CacheOff
  /\ existingArg \in Arrays(0, 9)
  /\ newArg \in Arrays(1, 1)
  /\ merged = <<>>
  /\ mergeStep = 0

\* mergeData(existingData, newData) returns
MergeCall ==
  /\ mergeStep \in {0, 2}
  /\ merged' = mergeData(existingArg, newArg)
  /\ mergeStep' = mergeStep + 1
  /\ UNCHANGED <<existingArg, newArg, svars, cvars, avars>>

\* the result is the existing data of the next call with the same new data
MergeAgain ==
  /\ mergeStep = 1
  /\ existingArg' = merged
  /\ mergeStep' = 2
  /\ UNCHANGED <<newArg, merged, svars, cvars, avars>>

NextMerge == MergeCall \/ MergeAgain

SpecMerge == InitMerge /\ [][NextMerge]_vars

\* ========================================================================
\* Claims about the server merge-and-commit loop
\* ========================================================================
\* process p commits in this step
Commits(p) == hist'[p].commits = hist[p].commits + 1
\* the call of p is a partial update with records to merge
Merging(p) == call[p].isPartialUpdate /\ Len(call[p].data) > 0
Has(doc, k) == \E i \in DOMAIN doc : doc[i].filename = k

\* C1: a write of a partial-update attempt commits only if the generation of
\* the document at commit time equals the generation the document had when
\* the same attempt read it (no other commit between its read and its write).
\* Stated for the datasets that have no local fallback file.
C1_CommitOnlyOnReadGeneration ==
  [][\A p \in Procs :
       (Commits(p) /\ Merging(p) /\ ~fallback[call[p].dataset].exists)
          => store[call[p].dataset].gen = hist[p].readGen]_vars

\* C2: two partial saves of one record each, with distinct keys, both begun
\* while the document does not exist (and no fallback file either) and with
\* no store failure: when both have returned, both returned true and the
\* document holds both records.
C2_BothFirstWritesSurvive ==
  \A p, q \in Procs :
    LET c == call[p]
        e == call[q]
    IN (/\ p # q
        /\ c.pc = "done" /\ e.pc = "done"
        /\ c.isPartialUpdate /\ e.isPartialUpdate
        /\ c.dataset = e.dataset /\ ~fallback[c.dataset].exists
        /\ c.data \in RealBatches /\ e.data \in RealBatches
        /\ c.data[1].filename # e.data[1].filename
        /\ hist[p].startGen = 0 /\ hist[q].startGen = 0
        /\ ~hist[p].storeErrors /\ ~hist[q].storeErrors)
       => /\ c.result = "true" /\ e.result = "true"
          /\ Has(store[c.dataset].doc, c.data[1].filename)
          /\ Has(store[c.dataset].doc, e.data[1].filename)

\* C3: the commit of a partial update keeps every record of the stored
\* document whose key is not in the incoming batch, with the same fields
\* apart from S.No (stated for the datasets that have no fallback file).
C3_UnrelatedRecordsKept ==
  [][\A p \in Procs :
       (Commits(p) /\ Merging(p) /\ ~fallback[call[p].dataset].exists) =>
          LET before == store[call[p].dataset].doc
              after == store'[call[p].dataset].doc
          IN \A i \in DOMAIN before :
               before[i].filename \notin Filenames(call[p].data)
                 => \E j \in DOMAIN after :
                      /\ after[j].filename = before[i].filename
                      /\ after[j].v = before[i].v]_vars

\* C4: every attempt of a partial update makes its own loadData call, and
\* what the attempt writes is the incoming batch merged into the result of
\* that call (or the batch itself when that call found nothing to merge into).
C4_FreshReadEveryAttempt ==
  \A p \in Procs :
    LET c == call[p]
        h == hist[p]
    IN (c.isPartialUpdate /\ Len(c.data) > 0 /\ c.pc \in {"exists", "download", "write"})
       => /\ h.readAttempt = c.attempt
          /\ h.reads = c.attempt
          /\ c.pc = "write" =>
               IF ~h.fresh.isNull /\ Len(h.fresh.data) > 0
               THEN /\ c.dataToSave = mergeData(h.fresh.data, c.data)
                    /\ c.expectedGeneration = h.fresh.generation
               ELSE /\ c.dataToSave = c.data
                    /\ c.expectedGeneration = NullGen

\* a second attempt, after a conflict, is about to write what it merged
\* into a document that differs from the initial one
C4_Witness ==
  \E p \in Procs :
    /\ call[p].pc = "write" /\ call[p].attempt = 2 /\ hist[p].conflicts = 1
    /\ ~hist[p].fresh.isNull /\ hist[p].fresh.generation = 2

C6_ExhaustedRetries ==
  \A p \in Procs :
    LET c == call[p]
        h == hist[p]
    IN (/\ c.pc = "done" /\ c.isPartialUpdate
        /\ h.writes > 0 /\ h.conflicts = h.writes /\ h.excs = 0)
       => /\ c.result = "false"
          /\ c.attempt = maxRetries
          /\ h.reads = maxRetries
          /\ h.writes = maxRetries

C6_Witness ==
  \E p \in Procs :
    /\ call[p].pc = "done" /\ call[p].result = "false"
    /\ hist[p].conflicts = maxRetries /\ hist[p].reads = maxRetries

\* C7: a save call with an empty record array returns false at once, for
\* every dataset and both values of the partial-update flag, without any
\* store read or write.
C7_EmptyBatchRejected ==
  \A p \in Procs :
    (call[p].pc # "idle" /\ Len(call[p].data) = 0)
       => /\ call[p].pc = "done" /\ call[p].result = "false"
          /\ hist[p].reads = 0 /\ hist[p].writes = 0 /\ hist[p].commits = 0

C7_Witness ==
  \E p, q \in Procs :
    /\ call[p].pc = "done" /\ call[p].data = <<>> /\ call[p].isPartialUpdate
    /\ call[p].dataset = "new_guntur" /\ call[p].result = "false"
    /\ call[q].pc = "done" /\ call[q].data = <<>> /\ ~call[q].isPartialUpdate
    /\ call[q].dataset = "ptz" /\ call[q].result = "false"

Settled(i) == promise[i] \in {"resolved", "rejected"}

\* C9: single flight: at most one flush is outstanding, the flag isSaving is
\* set while it is, and a flush begins only when none is outstanding.
C9_SingleFlight ==
  /\ [](Cardinality(flights) <= 1 /\ (flights # {} => isSaving))
  /\ [][flushSeq' # flushSeq => flights = {}]_vars

\* a flush is outstanding while the queue has reached the high-water mark:
\* the flush call of the last enqueue was skipped and no timer is pending
C9_Witness ==
  /\ flights # {} /\ isSaving
  /\ TotalImages(saveQueue) >= MAX_QUEUE_SIZE
  /\ skipped # {} /\ timers = {}

\* C10: with timers that fire and network calls that return, every queued
\* save is eventually taken by a flush and its promise eventually settles.
C10_EventualDelivery ==
  \A i \in 1..DeliverySaves :
    (i \in DOMAIN promise /\ promise[i] = "pending")
       ~> (i \in DOMAIN promise /\ Settled(i) /\ flushOf[i] # 0)

\* a save queued during a flush, whose own flush call was skipped, has been
\* delivered by a later flush
C10_Witness ==
  \E i \in skipped : Settled(i) /\ flushOf[i] > 1

\* C11: the promise of a queued save is settled only in the step in which the
\* network call of the flush that took it is dealt with; it is resolved
\* exactly when that flush got a successful HTTP response (response.ok), and
\* rejected exactly when it got a non-success response or a transport error.
C11_SettledByResponse ==
  [][\A i \in DOMAIN promise :
       promise'[i] # promise[i] =>
         \E f \in flights \ flights' :
           /\ i \in Ids(f.batch)
           /\ promise[i] = "pending"
           /\ promise'[i] = "resolved" <=> f.phase = "json"
           /\ promise'[i] = "rejected" <=> f.phase \in {"fetch", "errjson"}]_vars


\* the queued requests of a batch that contain the key k
Holders(batch, k) == {m \in DOMAIN batch : k \in Filenames(batch[m].images)}
\* the number of records of a payload that have the key k
Occurrences(payload, k) == Cardinality({n \in DOMAIN payload : payload[n].filename = k})

\* C12: coalescing: the payload of a flush has exactly one record for every
\* key of its batch and no other record, and the version it carries for a key
\* is the one of the most recently enqueued request of the batch that
\* contains the key.
C12_Coalescing ==
  \A f \in flights :
    /\ Filenames(f.payload) = Filenames(QueuedImages(f.batch))
    /\ \A k \in Filenames(f.payload) :
         /\ Occurrences(f.payload, k) = 1
         /\ LET last == CHOOSE m \in Holders(f.batch, k) :
                          \A o \in Holders(f.batch, k) : o <= m
            IN \A n \in DOMAIN f.payload :
                 f.payload[n].filename = k =>
                   \E x \in DOMAIN f.batch[last].images :
                     /\ f.batch[last].images[x].filename = k
                     /\ f.batch[last].images[x].ver = f.payload[n].v

\* a flush whose batch holds three requests with the key "a", the first two
\* of one image and the last a bulk: the payload carries the last version
C12_Witness ==
  \E f \in flights :
    /\ Len(f.batch) = 3
    /\ \A m \in 1..3 : "a" \in Filenames(f.batch[m].images)
    /\ Len(f.batch[3].images) > 1
    /\ \E n \in DOMAIN f.payload :
         f.payload[n].filename = "a" /\ f.payload[n].v = f.batch[3].images[1].ver


\* the network call of flush f is dealt with in this step
Completes(f) == f \in flights /\ \A g \in flights' : g.no # f.no
\* flush f got a transport error or a non-success response
Failed(f) == f.phase \in {"fetch", "errjson"}

\* C13: when the network call of a flush fails, every promise of its batch
\* is rejected in that step and nothing of the batch goes back into the
\* queue; a request that a flush has taken is never taken by another flush.
C13_NoClientRetry ==
  /\ [][\A f \in flights :
          (Completes(f) /\ Failed(f)) =>
             \A i \in Ids(f.batch) :
               promise'[i] = "rejected" /\ i \notin Ids(saveQueue')]_vars
  /\ [][\A i \in DOMAIN flushOf :
          flushOf[i] # 0 => flushOf'[i] = flushOf[i] /\ i \notin Ids(saveQueue')]_vars

\* a flush has failed and its requests are rejected, and the next flush,
\* which is outstanding, carries a request enqueued later and none of them
C13_Witness ==
  \E f \in flights :
    /\ f.no = 2
    /\ \E i \in DOMAIN promise : flushOf[i] = 1 /\ promise[i] = "rejected"
    /\ \A i \in Ids(f.batch) : flushOf[i] = 2 /\ promise[i] = "pending"


\* C14: the writes of one client are never reordered.  A flush begins only
\* when no POST is outstanding; every request taken by an earlier flush was
\* enqueued before every request of the new batch; and for each key the new
\* payload carries the latest version of the batch.  Hence an earlier version
\* of a key is never sent after, or while, a later one is.
C14_NoReorder ==
  [][flushSeq' # flushSeq =>
       /\ flights = {}
       /\ \E f \in flights' :
            /\ f.no = flushSeq'
            /\ \A i \in Ids(f.batch) : \A j \in DOMAIN flushOf : flushOf[j] # 0 => j < i
            /\ \A n \in DOMAIN f.payload : \A m \in DOMAIN f.batch :
                 \A x \in DOMAIN f.batch[m].images :
                   f.batch[m].images[x].filename = f.payload[n].filename
                     => f.batch[m].images[x].ver <= f.payload[n].v]_vars

\* the second flush is outstanding with a version of the key "a" while a
\* later version of "a" waits in the queue, the first flush being over
C14_Witness ==
  \E f \in flights :
    /\ f.no = 2
    /\ \E j \in DOMAIN promise : flushOf[j] = 1 /\ Settled(j)
    /\ \E n \in DOMAIN f.payload, m \in DOMAIN saveQueue :
         /\ f.payload[n].filename = "a"
         /\ \E x \in DOMAIN saveQueue[m].images :
              /\ saveQueue[m].images[x].filename = "a"
              /\ saveQueue[m].images[x].ver > f.payload[n].v


\* a partial save is enqueued in this step
Enqueues == Len(promise') = Len(promise) + 1
\* ... and leaves the queue below the high-water mark
EnqueuesBelowMark ==
  Enqueues /\ flushSeq' = flushSeq /\ TotalImages(saveQueue') < MAX_QUEUE_SIZE

\* C15 as stated: an enqueue that arrives while the flush timer is pending and
\* keeps the queue below the high-water mark leaves that timer in place, so
\* the flush stays scheduled a fixed delay after the first enqueue.
C15_LaterEnqueueKeepsTimer ==
  [][(EnqueuesBelowMark /\ saveTimeout \in timers) =>
        saveTimeout' = saveTimeout /\ saveTimeout \in timers']_vars

\* C15 as amended: every enqueue that keeps the queue below the high-water
\* mark cancels the timer the coordinator holds, if any, and sets a new timer
\* of the fixed delay, which the coordinator then holds: the delay runs from
\* the latest enqueue.
C15_EnqueueRestartsTimer ==
  [][EnqueuesBelowMark =>
        /\ saveTimeout \notin timers'
        /\ saveTimeout' \in timers' \ timers
        /\ saveTimeout' = timerSeq' /\ timerSeq' = timerSeq + 1]_vars

\* two requests are queued, the timer of the first has been cancelled and
\* the timer of the second is pending
C15_Witness ==
  /\ Len(saveQueue) = 2 /\ flushSeq = 0
  /\ timerSeq = 2 /\ saveTimeout = 2 /\ timers = {2}


\* C16: an enqueue made while no flush is in flight starts the flush inside
\* the call exactly when it brings the images in the queue to MAX_QUEUE_SIZE:
\* the flush then takes the whole queue, the new request included, the timer
\* the coordinator held is cancelled and none is set.
C16_HighWaterFlush ==
  [][(Enqueues /\ ~isSaving) =>
        IF flights' # {}
        THEN /\ \A f \in flights' :
                  /\ f.no = flushSeq + 1 /\ f.phase = "fetch"
                  /\ SubSeq(f.batch, 1, Len(saveQueue)) = saveQueue
                  /\ f.batch[Len(f.batch)].id = Len(promise')
                  /\ TotalImages(f.batch) >= MAX_QUEUE_SIZE
             /\ saveQueue' = <<>> /\ isSaving'
             /\ saveTimeout \notin timers' /\ saveTimeout' = NoTimer
             /\ timerSeq' = timerSeq
        ELSE /\ TotalImages(saveQueue') < MAX_QUEUE_SIZE
             /\ flushSeq' = flushSeq]_vars

\* the first flush is outstanding with two requests of ten images together,
\* begun by the second enqueue, which cancelled the timer of the first
C16_Witness ==
  \E f \in flights :
    /\ f.no = 1 /\ Len(f.batch) = 2 /\ TotalImages(f.batch) = MAX_QUEUE_SIZE
    /\ timerSeq = 1 /\ timers = {} /\ saveTimeout = NoTimer /\ saveQueue = <<>>


\* ========================================================================
\* Claims about the datasets and the keys of the stored documents
\* ========================================================================
\* C17: dataset partitions never merge: the commit of a request addressed to
\* the dataset X ('existing', 'ptz' or 'new_guntur') changes the document of X
\* and leaves the documents of the other two datasets as they are, and the
\* save call of the request reads and writes the dataset X.
C17_DatasetsApart ==
  [][\A p \in Procs :
       Commits(p) =>
         /\ call[p].dataset = hist[p].query
         /\ \A d \in Datasets \ {hist[p].query} : store'[d] = store[d]]_vars

\* no two records of the document have the same filename
UniqueKeys(doc) == \A i, j \in DOMAIN doc : doc[i].filename = doc[j].filename => i = j

\* C18: no two records of a stored document share a filename, after any
\* sequence of saves on datasets that start absent or with unique keys, also
\* when the record array of a request has a key more than once.
C18_StoredKeysUnique ==
  \A d \in Datasets : UniqueKeys(store[d].doc)


\* ========================================================================
\* Claims about mergeData
\* ========================================================================
\* C19: for existing data D and new data I, both with unique keys, the
\* result of mergeData(D, I) has Len(D) records plus one for each key of I
\* that is not in D, and every key of D or I is the key of exactly one record
\* of the result.
C19_MergeLengthAndKeys ==
  (mergeStep \in {1, 3} /\ UniqueKeys(existingArg) /\ UniqueKeys(newArg)) =>
     /\ Len(merged) = Len(existingArg)
                      + Cardinality(Filenames(newArg) \ Filenames(existingArg))
     /\ \A k \in Filenames(existingArg) \cup Filenames(newArg) :
          Occurrences(merged, k) = 1
     /\ Filenames(merged) = Filenames(existingArg) \cup Filenames(newArg)

\* two existing records and two new ones, one of them of an existing key
C19_Witness ==
  /\ mergeStep = 1 /\ UniqueKeys(existingArg) /\ UniqueKeys(newArg)
  /\ Len(existingArg) = 2 /\ Len(newArg) = 2 /\ Len(merged) = 3

\* C20: mergeData is idempotent in the new data: with non-empty new data I of
\* unique keys and any existing data D, mergeData(mergeData(D, I), I) is
\* mergeData(D, I): the same records in the same order with the same S.No.
C20_MergeIdempotent ==
  (mergeStep = 3 /\ Len(newArg) > 0 /\ UniqueKeys(newArg)) => merged = existingArg

\* the second call has returned, for new data that replaced one record and
\* added another
C20_Witness ==
  /\ mergeStep = 3 /\ Len(newArg) = 2 /\ UniqueKeys(newArg)
  /\ Len(merged) = 3 /\ merged = existingArg
  /\ merged[1].v = 1 /\ merged[2].v = 0 /\ merged[3].v = 1


\* C21: order preservation: with existing data D of unique keys, the record
\* at every index of D is followed at the same index of the result by the
\* record of the same key: the one of the new data I when I has the key
\* (whatever its index in I), else the record of D itself; so the records
\* of D that are not updated keep their relative order.
C21_MergeKeepsPositions ==
  (mergeStep \in {1, 3} /\ UniqueKeys(existingArg) /\ Len(newArg) > 0) =>
     \A i \in DOMAIN existingArg :
       /\ i \in DOMAIN merged
       /\ merged[i].filename = existingArg[i].filename
       /\ merged[i].v = IF existingArg[i].filename \in Filenames(newArg)
                        THEN MapGet(newArg, existingArg[i].filename).v
                        ELSE existingArg[i].v

\* three existing records; the new data has the key of the second one at
\* its index 2 and the key of the third one at its index 1: both are
\* updated where they were
C21_Witness ==
  /\ mergeStep = 1 /\ UniqueKeys(existingArg) /\ Len(existingArg) = 3
  /\ Len(newArg) = 2 /\ UniqueKeys(newArg)
  /\ newArg[1].filename = existingArg[3].filename
  /\ newArg[2].filename = existingArg[2].filename
  /\ merged[1].v = 0 /\ merged[2].v = 1 /\ merged[3].v = 1

\* the records of the new data whose key is not in the existing data
NewOnly(existing, new) ==
  LET IsNew(r) == r.filename \notin Filenames(existing)
  IN SelectSeq(new, IsNew)

\* C22: append order: with new data I of unique keys, the records of I whose
\* key is not in the existing data D are the records of the result after its
\* first Len(D) ones, in the order they have in I.
C22_MergeAppendsInOrder ==
  (mergeStep \in {1, 3} /\ Len(newArg) > 0 /\ UniqueKeys(newArg)) =>
     LET added == NewOnly(existingArg, newArg)
     IN /\ Len(merged) = Len(existingArg) + Len(added)
        /\ \A n \in DOMAIN added :
             /\ merged[Len(existingArg) + n].filename = added[n].filename
             /\ merged[Len(existingArg) + n].v = added[n].v

\* one existing record, and new data of three keys of which the second is
\* the existing one: the first and the third are appended in that order
C22_Witness ==
  /\ mergeStep = 1 /\ Len(existingArg) = 1 /\ Len(newArg) = 3 /\ UniqueKeys(newArg)
  /\ newArg[2].filename = existingArg[1].filename
  /\ Len(merged) = 3
  /\ merged[2].filename = newArg[1].filename
  /\ merged[3].filename = newArg[3].filename

\* C23: with non-empty new data, every record of the result of mergeData has
\* the S.No of its position (the index counted from 1), whatever S.No the
\* records of the existing and of the new data carried.
C23_MergeRenumbers ==
  (mergeStep \in {1, 3} /\ Len(newArg) > 0) =>
     \A i \in DOMAIN merged : merged[i].SNo = i

\* the result has three records, coming from an existing record with the
\* S.No 9 and from new records with the S.No 1
C23_Witness ==
  /\ mergeStep = 1 /\ Len(merged) = 3 /\ Len(newArg) = 2
  /\ existingArg[1].SNo = 9 /\ newArg[2].SNo = 1
  /\ merged[1].SNo = 1 /\ merged[3].SNo = 3


\* ========================================================================
\* Claims about the save handler
\* ========================================================================
\* the body of the latest request of p has an empty record array, or no array
NothingToSave(p) == hist[p].body.kind = "none" \/ Len(hist[p].body.data) = 0

C25_ResponseTellsOutcome ==
  \A p \in Procs :
    LET r == hist[p].response
    IN /\ r.success => r.status = 200
       /\ r.status = 200 =>
            /\ r.success /\ r.imagesUpdated = Len(hist[p].body.data)
            /\ call[p].pc = "done" /\ call[p].result = "true"
            /\ hist[p].commits = 1
       /\ (call[p].pc = "done" /\ call[p].result = "false" /\ r.status # 0) =>
            r = Response(500, FALSE, 0)

\* one request answered 200 after its verification read, the other answered
\* 500 after a store failure
C25_Witness ==
  \E p, q \in Procs :
    /\ hist[p].response.status = 200 /\ hist[p].verified
    /\ hist[q].response.status = 500 /\ hist[q].otherError


\* ========================================================================
\* Claims about the retry loop of saveData
\* ========================================================================
\* the attempt of p ends with a conflict in this step
Conflicts(p) == hist'[p].conflicts = hist[p].conflicts + 1

\* the backoff of p ends in this step
Resumes(p) == call[p].pc = "backoff" /\ call'[p] # call[p]

\* C27: a conflict on an attempt before the last one makes the call wait,
\* and after the wait the next attempt, numbered one more, starts with a new
\* read of the store; the call returns false because of a conflict only
\* when the conflict is on the last attempt, every attempt before having
\* ended with a conflict too.
C27_ConflictRetried ==
  /\ [][\A p \in Procs :
          /\ Conflicts(p) =>
               IF call[p].attempt < maxRetries
               THEN /\ call'[p].pc = "backoff"
                    /\ call'[p].attempt = call[p].attempt
                    /\ call'[p].result = "none"
               ELSE call'[p].pc = "done" /\ call'[p].result = "false"
          /\ (Resumes(p) /\ hist[p].conflicts = call[p].attempt) =>
               /\ call'[p].attempt = call[p].attempt + 1
               /\ call'[p].pc = "exists"
               /\ hist'[p].reads = hist[p].reads + 1
               /\ hist'[p].readAttempt = call'[p].attempt
               /\ hist'[p].fresh = NullResult]_vars
  /\ [](\A p \in Procs :
          (call[p].pc = "done" /\ call[p].result = "false"
             /\ hist[p].conflicts > 0 /\ ~hist[p].otherError) =>
            /\ call[p].attempt = maxRetries
            /\ hist[p].conflicts = maxRetries
            /\ hist[p].reads = maxRetries)

\* a call has returned false after a conflict on each of its attempts, each
\* attempt having read the store anew
C27_Witness ==
  \E p \in Procs :
    /\ call[p].pc = "done" /\ call[p].result = "false"
    /\ hist[p].conflicts = maxRetries
    /\ hist[p].readAttempt = maxRetries
    /\ hist[p].commits = 0


\* C28: an attempt of a partial update writes without a generation
\* precondition only if no document existed in the store when the attempt
\* read it; if a document existed then, the write carries a generation.
C28_UnconditionalOnlyFirstWrite ==
  \A p \in Procs :
    (call[p].pc = "write" /\ Merging(p) /\ call[p].expectedGeneration = NullGen)
      => hist[p].readGen = NoObject.gen


\* an exception is thrown in the attempt of p in this step
Throws(p) == hist'[p].excs = hist[p].excs + 1

\* C29: an exception thrown in an attempt uses up that attempt: below the
\* last attempt the call waits and then starts the next attempt, numbered
\* one more, and on the last attempt the call returns false; a call ends
\* with true or false only, never with the exception.
C29_ExceptionUsesAttempt ==
  /\ [][\A p \in Procs :
          /\ Throws(p) =>
               IF call[p].attempt < maxRetries
               THEN /\ call'[p].pc = "backoff"
                    /\ call'[p].attempt = call[p].attempt
                    /\ call'[p].result = "none"
               ELSE call'[p].pc = "done" /\ call'[p].result = "false"
          /\ (Resumes(p) /\ hist[p].excs > 0) =>
               /\ call'[p].attempt = call[p].attempt + 1
               /\ call'[p].attempt <= maxRetries
               /\ call'[p].pc = "exists"
               /\ hist'[p].excs = hist[p].excs]_vars
  /\ [](\A p \in Procs :
          /\ hist[p].excs <= call[p].attempt
          /\ call[p].pc = "done" <=> call[p].result \in {"true", "false"}
          /\ call[p].pc # "done" => call[p].result = "none")

\* a call has returned false after an exception in each of its attempts
C29_Witness ==
  \E p \in Procs :
    /\ call[p].pc = "done" /\ call[p].result = "false"
    /\ hist[p].excs = maxRetries
    /\ call[p].attempt = maxRetries
    /\ hist[p].reads = maxRetries


\* ========================================================================
\* Claims about the client queue while a flush is in flight
\* ========================================================================
\* C30: a request enqueued while a flush is in flight leaves the batch in
\* flight as it is and goes to the end of the queue; when the flush in
\* flight is over and the queue is not empty, a new timer is set for the
\* next flush and the queue is kept; and a flush begins only when none is
\* in flight.
C30_QueuedBehindFlight ==
  /\ [][(Enqueues /\ flights # {}) =>
          /\ flights' = flights /\ flushSeq' = flushSeq
          /\ Len(saveQueue') = Len(saveQueue) + 1
          /\ SubSeq(saveQueue', 1, Len(saveQueue)) = saveQueue
          /\ saveQueue'[Len(saveQueue')].id = Len(promise')
          /\ \A f \in flights' : Len(promise') \notin Ids(f.batch)]_vars
  /\ [][\A f \in flights :
          Completes(f) =>
            /\ saveQueue' = saveQueue /\ flushSeq' = flushSeq /\ ~isSaving'
            /\ IF saveQueue # <<>>
               THEN saveTimeout' \in timers' \ timers
               ELSE timers' = timers /\ saveTimeout' = saveTimeout]_vars
  /\ [][flushSeq' # flushSeq => flights = {} /\ ~isSaving]_vars

\* the first flush is over and a request enqueued during it waits in the
\* queue, with the timer of that enqueue and the timer set at the end of
\* the flush both pending
C30_Witness ==
  /\ flights = {} /\ flushSeq = 1 /\ ~isSaving
  /\ saveQueue # <<>>
  /\ \E i \in DOMAIN promise : flushOf[i] = 1 /\ Settled(i)
  /\ Cardinality(timers) = 2
  /\ saveTimeout \in timers


\* the call of p is under way
Active(p) == call[p].pc \notin {"idle", "done"}

\* C26: with store requests that settle and backoff timers that fire, every
\* saveData call returns true or false; its attempts are numbered from 1,
\* one more for each retry, up to maxRetries; and a call under way can
\* always take its next step on its own, whatever the other calls do, so
\* concurrent calls never block one another.
C26_SaveTerminates ==
  /\ \A p \in Procs :
       Active(p) ~> (call[p].pc = "done" /\ call[p].result \in {"true", "false"})
  /\ [](\A p \in Procs :
          /\ Active(p) => (call[p].attempt \in 1..maxRetries /\ ENABLED Progress(p))
          /\ call[p].pc = "done" => call[p].attempt \in 1..maxRetries
          /\ hist[p].reads <= maxRetries /\ hist[p].writes <= maxRetries)
  /\ [][\A p \in Procs :
          /\ (~Active(p) /\ Active(p)') => call'[p].attempt = 1
          /\ Active(p) =>
               \/ call'[p].attempt = call[p].attempt
               \/ /\ call[p].pc = "backoff"
                  /\ call'[p].attempt = call[p].attempt + 1
                  /\ Active(p)']_vars

\* a call has returned true on its second attempt, after a conflict with
\* the concurrent call, which has returned too
C26_Witness ==
  \E p, q \in Procs :
    /\ p # q
    /\ call[p].pc = "done" /\ call[p].result = "true"
    /\ call[p].attempt = 2 /\ hist[p].conflicts = 1
    /\ call[q].pc = "done" /\ call[q].result = "true"


\* ========================================================================
\* Claims about the requests and promises of the client coordinator
\* ========================================================================
\* the flushes in flight whose batch holds request i
FlightsOf(i) == {f \in flights : i \in Ids(f.batch)}
\* the places of the queue that hold request i
QueuePlaces(i) == {m \in DOMAIN saveQueue : saveQueue[m].id = i}

\* C31: no request is dropped or duplicated.  A request that no flush has
\* taken is in the queue once and pending; a request that a flush has taken
\* is out of the queue, stays with that flush, and is in its batch in
\* flight exactly while its promise is pending; a promise changes only
\* once, from pending, in the step in which the network call of its flush
\* is dealt with, and that step settles every promise of the batch.
C31_ExactlyOnce ==
  /\ [](\A i \in DOMAIN promise :
          IF flushOf[i] = 0
          THEN /\ Cardinality(QueuePlaces(i)) = 1
               /\ promise[i] = "pending" /\ FlightsOf(i) = {}
          ELSE /\ QueuePlaces(i) = {}
               /\ \A f \in FlightsOf(i) : f.no = flushOf[i]
               /\ Cardinality(FlightsOf(i)) = (IF promise[i] = "pending" THEN 1 ELSE 0))
  /\ [][\A i \in DOMAIN promise :
          /\ flushOf[i] # 0 => flushOf'[i] = flushOf[i]
          /\ Settled(i) => promise'[i] = promise[i]
          /\ promise'[i] # promise[i] =>
               \E f \in FlightsOf(i) : Completes(f)]_vars
  /\ [][\A f \in flights :
          Completes(f) => \A i \in Ids(f.batch) : promise[i] = "pending" /\ promise'[i] # "pending"]_vars

\* the requests of the first flush are resolved and those of the second are
\* rejected, nothing being queued or in flight
C31_Witness ==
  /\ flights = {} /\ saveQueue = <<>> /\ flushSeq = 2
  /\ \E i, j \in DOMAIN promise :
       /\ flushOf[i] = 1 /\ promise[i] = "resolved"
       /\ flushOf[j] = 2 /\ promise[j] = "rejected"
  /\ \A i \in DOMAIN promise : Settled(i)


\* C32: a flush makes one POST, addressed to the dataset of the first
\* request of its batch, and the payload of that POST has a record for
\* every image of the batch, whatever dataset its request named.
C32_FirstRequestDataset ==
  /\ [](\A f \in flights :
          /\ f.dataset = f.batch[1].dataset
          /\ \A m \in DOMAIN f.batch :
               Filenames(f.batch[m].images) \subseteq Filenames(f.payload)
          /\ \A g \in flights : g.no = f.no => g = f)
  /\ [][flushSeq' # flushSeq =>
          /\ saveQueue # <<>> \/ Enqueues
          /\ Cardinality(flights' \ flights) = 1
          /\ \A f \in flights' \ flights :
               /\ f.no = flushSeq'
               /\ saveQueue # <<>> => f.dataset = saveQueue[1].dataset]_vars

\* a flush in flight to the dataset of its first request carries the image
\* of a request that named another dataset
C32_Witness ==
  \E f \in flights :
    /\ Len(f.batch) = 2
    /\ f.dataset = "existing" /\ f.batch[2].dataset = "ptz"
    /\ Filenames(f.batch[2].images) = {"b"}
    /\ \E n \in DOMAIN f.payload : f.payload[n].filename = "b"


\* ========================================================================
\* Claims about the stored document after a save
\* ========================================================================
\* every record has S.No equal to its position, counted from 1
Numbered(doc) == \A i \in DOMAIN doc : doc[i].SNo = i

\* C33: the commit of a partial-update save, the first write into a dataset
\* without a document included, leaves a document in which every record has
\* S.No equal to its position.
C33_StoredDocumentNumbered ==
  [][\A p \in Procs :
       (Commits(p) /\ Merging(p)) => Numbered(store'[call[p].dataset].doc)]_vars


\* ========================================================================
\* Claims about the handler of src/api/save-analytics.js
\* ========================================================================
\* C34: a partial save of that handler merges its records into the
\* document as the store holds it during the request, never into a copy
\* read or written before the request arrived; so what another process
\* committed before the request arrived is in the document it writes.
C34_NoCacheAcrossRequests ==
  \A p \in Procs :
    (req[p].pc = "write" /\ req[p].isPartialUpdate) =>
       req[p].baseGen >= req[p].startGen

\* ========================================================================
\* Claims about full saves
\* ========================================================================
\* the call of p is a save of records with the partial-update flag false
Overwriting(p) == ~call[p].isPartialUpdate /\ Len(call[p].data) > 0 /\ call[p].pc # "idle"

\* C35: a save with the partial-update flag false makes no store read and
\* no merge; its one write carries the request's records and no generation
\* precondition, so it never gets a conflict: unless the store request
\* fails it commits, whatever was committed since the call began, and the
\* stored document is then exactly the request's records.
C35_FullSaveOverwrites ==
  /\ [](\A p \in Procs :
          Overwriting(p) =>
            /\ hist[p].reads = 0 /\ hist[p].conflicts = 0 /\ call[p].attempt = 1
            /\ hist[p].writes = 1
            /\ call[p].pc \in {"write", "done"}
            /\ call[p].pc = "write" =>
                 /\ call[p].dataToSave = call[p].data
                 /\ call[p].expectedGeneration = NullGen
            /\ call[p].pc = "done" =>
                 (call[p].result = "true" <=> ~hist[p].storeErrors))
  /\ [][\A p \in Procs :
          (Overwriting(p) /\ call[p].pc = "write" /\ call'[p].pc = "done"
             /\ ~hist'[p].storeErrors) =>
            /\ call'[p].result = "true"
            /\ store'[call[p].dataset] = Put(store[call[p].dataset], call[p].data)]_vars

\* a full save has committed its one record over a document of two records
\* that another call had committed after the full save began
C35_Witness ==
  \E p \in Procs :
    /\ Overwriting(p) /\ call[p].pc = "done" /\ call[p].result = "true"
    /\ store["existing"].doc = call[p].data
    /\ store["existing"].gen = hist[p].startGen + 2
    /\ \E q \in Procs \ {p} :
         /\ call[q].pc = "done" /\ call[q].result = "true" /\ Merging(q)
         /\ Filenames(call[q].data) # Filenames(call[p].data)
         /\ hist[q].startGen = hist[p].startGen
         /\ hist[q].readGen = store["existing"].gen - 2 /\ hist[q].readGen > 0


\* the latest request of p was a bare array
BareArray(p) == hist[p].body.kind = "array"

CommitsDuring(p) == store[call[p].dataset].gen - hist[p].startGen

\* the attempt of p ends with a conflict after a commit that came between
\* its read and its write
ConflictAfterCommit(p) ==
  Conflicts(p) => store[call[p].dataset].gen > hist[p].readGen

C38_OneTimerPending ==
  /\ Cardinality(timers) <= 1
  /\ timers # {} => timers = {saveTimeout}

\* ------------------------------------------------------------------------
\* C39
\* ------------------------------------------------------------------------
\* C39: a client save called with an empty record list returns false and
\* leaves the coordinator as it was: no promise is created or rejected,
\* nothing is enqueued, no timer is set or cleared, no network call is made
C39_EmptySaveChangesNothing ==
  [][emptyReturns' # emptyReturns =>
       /\ emptyReturns' = emptyReturns + 1
       /\ UNCHANGED <<promise, saveQueue, flushOf, skipped>>
       /\ UNCHANGED <<saveTimeout, timers, timerSeq>>
       /\ UNCHANGED <<isSaving, flights, flushSeq, fulls>>]_vars

\* an empty save has returned while a request is queued, its timer is
\* pending and an earlier flush is in flight
C39_Witness ==
  /\ emptyReturns > 0
  /\ saveQueue # <<>>
  /\ saveTimeout \in timers
  /\ isSaving /\ flights # {}
====
